---------------------------- MODULE Spec2Model ----------------------------
(***************************************************************************)
(* A model of src/server.js: the access-code backend.                      *)
(*                                                                         *)
(* State: the Code collection, the Session collection (with its unique     *)
(* index on code and its TTL index on createdAt), the store's clock, one   *)
(* record per request task (its body, the position of the handler between  *)
(* two awaits, its locals and its response), and the seeding routine.      *)
(*                                                                         *)
(* Every action is one store (or upstream) operation together with the     *)
(* synchronous JavaScript that follows it up to the next await: Node runs  *)
(* that code without interleaving, and it touches only the request's own   *)
(* locals and response.                                                    *)
(***************************************************************************)
EXTENDS Integers, Sequences, FiniteSets, TLC

\* ------------------------------------------------------------------------
\* Bounds of the model

\* codeLength (server.js:53 sets 12); the model generates shorter codes
CodeLength == 2
\* the number of codes seedCodes generates (server.js:148 loops 10 times)
SeedN == 3
\* the last day the store clock reaches
MaxTime == 7

\* ------------------------------------------------------------------------
\* Program constants

\* expires: '7d' (server.js:33), in days; the clock counts days
TTL == 7
\* max_tokens (server.js:122)
MaxTokens == 150
\* ENCRYPTION_KEY and ENCRYPTION_IV (server.js:40, 41): any fixed values
Key == 1
IV == 1

\* characters (server.js:52), cut to its first letters
Characters == <<"A", "B">>
\* the values of one random byte (crypto.randomBytes, server.js:55), cut
\* to a range that characters.length does not divide, as 256 % 72 /= 0
Bytes == 0 .. 2

\* ------------------------------------------------------------------------
\* Values

\* a body field the request does not carry (undefined), for a string of
\* letters, for a device identifier and for the messages array
Missing == <<"undefined">>
MissingDevice == "undefined"
MissingMessages == <<[role |-> "undefined", content |-> "undefined"]>>
\* null: Session.findOne found nothing
NoSession == [code |-> <<"null">>, deviceId |-> "null", createdAt |-> -1]

Procs == {"t1", "t2"}
Devices == {"devA", "devB"}

\* a string is a sequence of letters; "" is the empty sequence
EmptyString == << >>

\* !x of JavaScript for a body field that is a string of letters or missing
Falsy(x) == x = Missing \/ x = EmptyString
\* !x for a device identifier
FalsyDevice(d) == d = MissingDevice \/ d = ""

\* ------------------------------------------------------------------------
\* Cipher

\* the position of a letter in characters (characters.indexOf)
IndexOf(ch) ==
    IF \E i \in 1 .. Len(Characters) : Characters[i] = ch
    THEN CHOOSE i \in 1 .. Len(Characters) : Characters[i] = ch
    ELSE 0

\* The block cipher in CBC mode under the fixed key and IV, on the model's
\* alphabet: each output symbol encrypts the input letter chained with the
\* previous output symbol, the first one with the IV.
RECURSIVE CbcFrom(_, _)
CbcFrom(text, prev) ==
    IF text = << >> THEN << >>
    ELSE LET block == (IndexOf(Head(text)) + prev + Key) % (Len(Characters) + 1)
         IN  <<block>> \o CbcFrom(Tail(text), block)

\* a cipher without the call of cipher.final: the last block is not output
encryptWithoutFinal(text) ==
    IF text = << >> THEN << >> ELSE SubSeq(CbcFrom(text, IV), 1, Len(text) - 1)

\* encrypt(text), server.js:43-48
encrypt(text) == CbcFrom(text, IV)

\* ------------------------------------------------------------------------
\* The inputs of the model

\* two codes generateRandomCode can produce
Code1 == [i \in 1 .. CodeLength |-> "A"]
CodeU == [i \in 1 .. CodeLength |-> "B"]
\* a second code of the seeded collection
Code2 == [i \in 1 .. CodeLength |-> IF i = 1 THEN "A" ELSE "B"]
ReqCodes == {Missing, EmptyString, Code1, CodeU}
\* the bodies of the verify requests: both devices on a seeded code, a code
\* that was never seeded, and each way of leaving a field out
VerifyBodies ==
    {[code |-> Code1, deviceId |-> d] : d \in Devices}
    \cup {[code |-> CodeU, deviceId |-> d] : d \in {"devA", ""}}
    \cup {[code |-> c, deviceId |-> "devA"] : c \in {Missing, EmptyString}}
    \cup {[code |-> Code1, deviceId |-> d] : d \in {MissingDevice, ""}}
Msg1 == [role |-> "user", content |-> "hi"]
Msg2 == [role |-> "assistant", content |-> "hello"]
ReqMessages == {MissingMessages, << >>, <<Msg1, Msg2>>}
\* what the upstream may answer (response.data) and how it may fail
UpstreamData == {[choices |-> "completion1"], [choices |-> "completion2"]}
UpstreamErrors == {"rate limited", "timeout"}

\* the values the history variables are kept for
KeyCodes == ReqCodes \cup {Code2}

\* an AccessCode document of codeSchema
AccessCode(c) == [code |-> c, encryptedCode |-> encrypt(c)]

\* ------------------------------------------------------------------------
\* State

VARIABLES
    codeStore,    \* the Code collection: a set of AccessCode documents
    sessions,     \* the Session collection: documents code, deviceId, createdAt
    now,          \* the store's clock, in days
    req,          \* per request task: body, handler position, locals, response,
                  \* and its history: ops, the store and upstream operations
                  \* it issued; alone, no other request for its code was in
                  \* flight with it; fresh, its code had no Session when it
                  \* was received; afterLogout, the value of loggedOut then
    seedPc,       \* where seedCodes() stands
    codes,        \* the local array codes of seedCodes()
    seedStart,    \* history: the Code collection when seedCodes() was called
    lastUpsert,   \* history: per code, the day of its most recent upsert, or -1
    loggedOut,    \* history: per code, the device whose Session the logout
                  \* just completed removed ("none": no such logout, or a
                  \* request for the code was received since)
    boot          \* the process: what its environment gives it (the cipher
                  \* key and IV, the store behind MONGO_URI) and how far the
                  \* start of server.js has come

vars ==
    <<codeStore, sessions, now, req, seedPc, codes, seedStart, lastUpsert, loggedOut, boot>>

\* the process started with a good configuration and listens
Booted == [key |-> "ok", iv |-> "ok", store |-> "up", pc |-> "listening"]
\* app.listen has been called and the process lives
Listening == boot.pc = "listening"
\* the store answers (mongoose.connect, server.js:16, succeeded)
StoreUp == boot.store = "up"
\* crypto.createCipheriv (server.js:44) takes the key and the IV: they have
\* the lengths aes-256-cbc asks for
CipherOk == boot.key = "ok" /\ boot.iv = "ok"

\* responses
NoResponse == [status |-> 0, body |-> [none |-> TRUE]]
Json(st, b) == [status |-> st, body |-> b]
CodeAndDeviceRequired == Json(400, [error |-> "Code and deviceId required"])
CodeRequired == Json(400, [error |-> "Code required"])
MessagesRequired == Json(400, [error |-> "Messages required"])
ValidFalse == Json(200, [valid |-> FALSE])
ValidTrue == Json(200, [valid |-> TRUE])
DeviceConflict == Json(403, [error |-> "This code is already in use on another device."])
ServerError == Json(500, [error |-> "Server error"])
LogoutSuccess == Json(200, [success |-> TRUE])
ChatFailed == Json(500, [error |-> "Failed to generate response"])

\* a request task that has received nothing yet
Idle ==
    [kind |-> "none", code |-> Missing, deviceId |-> MissingDevice,
     messages |-> MissingMessages, pc |-> "idle",
     existingSession |-> NoSession, res |-> NoResponse,
     sent |-> << >>, logged |-> "",
     ops |-> << >>, alone |-> TRUE, fresh |-> FALSE, afterLogout |-> "none"]

\* the task is between receiving a request and answering it
InFlight(p) == req[p].pc \notin {"idle", "done"}

\* ------------------------------------------------------------------------
\* Store operations

\* a lookup with no filter: any document of the collection matches
CodeFoundUnfiltered(store, cipher) == store /= {}

\* Code.findOne({ encryptedCode }), server.js:73: a matching document exists
CodeFound(store, cipher) == \E r \in store : r.encryptedCode = cipher

\* Session.findOne({ code }), server.js:78: a matching document, or null
SessionFindOne(S, c) ==
    IF \E s \in S : s.code = c THEN CHOOSE s \in S : s.code = c ELSE NoSession

\* an update that leaves the matched document as it is
SessionUpdateNothing(S, c, d) == S

\* the update part of findOneAndUpdate(filter, { code, deviceId }): the
\* update document carries no operator, so it is applied as $set of its two
\* fields to the matched document; createdAt is not among them
SessionUpdate(S, c, d) ==
    LET s == SessionFindOne(S, c)
    IN  (S \ {s}) \cup {[s EXCEPT !.code = c, !.deviceId = d]}

\* an update without upsert: true inserts nothing
SessionInsertNothing(S, c, d, t) == S

\* the insert part of the upsert: the filter's and update's fields, and
\* createdAt by its schema default Date.now (server.js:33)
SessionInsert(S, c, d, t) == S \cup {[code |-> c, deviceId |-> d, createdAt |-> t]}

\* no unique index: nothing is refused
NoDuplicateKey(S, c) == FALSE

\* the unique index on Session.code (server.js:31) refuses a second document
DuplicateKey(S, c) == \E s \in S : s.code = c

\* a deleteOne whose filter is lost: the first document there is goes
SessionDeleteUnfiltered(S, c) == IF S = {} THEN S ELSE S \ {CHOOSE s \in S : TRUE}

\* a delete that removes nothing
SessionDeleteNothing(S, c) == S

\* Session.deleteOne({ code }), server.js:102: removes the first match
SessionDeleteOne(S, c) ==
    IF \E s \in S : s.code = c THEN S \ {SessionFindOne(S, c)} ELSE S

\* the TTL index (expires: '7d', server.js:33): the document may be removed
Expired(s, t) == t >= s.createdAt + TTL

\* ------------------------------------------------------------------------
\* History bookkeeping (no program state)

\* task p receives a request for code c that passes validation: the other
\* tasks in flight on c are no longer alone, and c's logout is not the last
\* thing that happened to it
Overlap(p, c) ==
    [q \in Procs |->
        IF q /= p /\ InFlight(q) /\ req[q].kind \in {"verify", "logout"} /\ req[q].code = c
        THEN [req[q] EXCEPT !.alone = FALSE] ELSE req[q]]

OthersInFlight(p, c) ==
    \E q \in Procs \ {p} :
        InFlight(q) /\ req[q].kind \in {"verify", "logout"} /\ req[q].code = c

\* a handler that answers and does not return
AnswerAndGoOn(r, response) == [r EXCEPT !.res = response]

\* the handler answers and returns: its locals are gone
Answer(r, response) ==
    [r EXCEPT !.pc = "done", !.res = response, !.existingSession = NoSession]

\* ------------------------------------------------------------------------
\* POST /api/verify-code, server.js:68-94

\* a conflict check that is never true
NeverConflict(existing, d) == FALSE

\* existingSession && existingSession.deviceId !== deviceId, server.js:79
Conflict(existing, d) == existing /= NoSession /\ existing.deviceId /= d

\* a validation that lets every body through
VerifyAcceptsAll(c, d) == FALSE

\* !code || !deviceId, server.js:70
VerifyInvalid(c, d) == Falsy(c) \/ FalsyDevice(d)

\* The request arrives; the body is validated before the first await.
ReceiveVerify(p, c, d) ==
    /\ Listening
    /\ ~InFlight(p)
    /\ LET r == [Idle EXCEPT !.kind = "verify", !.code = c, !.deviceId = d]
       IN  IF VerifyInvalid(c, d)
           THEN /\ req' = [req EXCEPT ![p] = Answer(r, CodeAndDeviceRequired)]
                /\ UNCHANGED loggedOut
           ELSE /\ req' = [Overlap(p, c) EXCEPT ![p] =
                            [r EXCEPT !.pc = "findCode",
                                      !.alone = ~OthersInFlight(p, c),
                                      !.fresh = (SessionFindOne(sessions, c) = NoSession),
                                      !.afterLogout = loggedOut[c]]]
                /\ loggedOut' = [loggedOut EXCEPT ![c] = "none"]
    /\ UNCHANGED <<codeStore, sessions, now, seedPc, codes, seedStart, boot, lastUpsert>>

\* await Code.findOne({ encryptedCode: encrypt(code) }), then lines 74-76
VerifyFindCode(p) ==
    /\ Listening
    /\ req[p].kind = "verify" /\ req[p].pc = "findCode"
    /\ \E ok \in BOOLEAN :
         LET r == [req[p] EXCEPT !.ops = Append(@, "Code.findOne")]
         IN  /\ ok => StoreUp
             /\ req' = [req EXCEPT ![p] =
                IF ~CipherOk THEN Answer(req[p], ServerError)
                ELSE IF ~ok THEN Answer(r, ServerError)
                ELSE IF ~CodeFound(codeStore, encrypt(r.code)) THEN Answer(r, ValidFalse)
                ELSE [r EXCEPT !.pc = "findSession"]]
    /\ UNCHANGED <<codeStore, sessions, now, seedPc, codes, seedStart, boot, lastUpsert, loggedOut>>

\* a handler that writes the Session first and checks the conflict after
VerifyUpsertBeforeCheck(p) ==
    /\ Listening
    /\ req[p].kind = "verify" /\ req[p].pc = "findSession"
    /\ \E ok \in BOOLEAN :
         LET r == [req[p] EXCEPT !.ops = Append(@, "Session.findOneAndUpdate")]
             found == SessionFindOne(sessions, r.code)
         IN  /\ sessions' = IF found = NoSession
                            THEN SessionInsert(sessions, r.code, r.deviceId, now)
                            ELSE SessionUpdate(sessions, r.code, r.deviceId)
             /\ lastUpsert' = [lastUpsert EXCEPT ![r.code] = now]
             /\ req' = [req EXCEPT ![p] =
                   IF ~ok THEN Answer(r, ServerError)
                   ELSE IF Conflict(found, r.deviceId) THEN Answer(r, DeviceConflict)
                   ELSE Answer(r, ValidTrue)]
    /\ UNCHANGED <<codeStore, now, seedPc, codes, seedStart, boot, loggedOut>>

\* await Session.findOne({ code }), then lines 79-81
VerifyFindSession(p) ==
    /\ Listening
    /\ req[p].kind = "verify" /\ req[p].pc = "findSession"
    /\ \E ok \in BOOLEAN :
         LET r == [req[p] EXCEPT !.ops = Append(@, "Session.findOne")]
             found == SessionFindOne(sessions, r.code)
             rr == [r EXCEPT !.existingSession = found]
         IN  /\ ok => StoreUp
             /\ req' = [req EXCEPT ![p] =
                IF ~ok THEN Answer(r, ServerError)
                ELSE IF Conflict(found, r.deviceId) THEN Answer(rr, DeviceConflict)
                ELSE [rr EXCEPT !.pc = "upsert"]]
    /\ UNCHANGED <<codeStore, sessions, now, seedPc, codes, seedStart, boot, lastUpsert, loggedOut>>

\* await Session.findOneAndUpdate({ code }, { code, deviceId }, { upsert }):
\* the store looks for a match and updates it; with none it goes on to
\* insert. The response of line 89 follows a completed upsert.
VerifyUpsert(p) ==
    /\ Listening
    /\ req[p].kind = "verify" /\ req[p].pc = "upsert"
    /\ \E ok \in BOOLEAN :
         LET r == [req[p] EXCEPT !.ops = Append(@, "Session.findOneAndUpdate")]
         IN  IF ~ok \/ ~StoreUp
             THEN /\ req' = [req EXCEPT ![p] = Answer(r, ServerError)]
                  /\ UNCHANGED <<sessions, lastUpsert>>
             ELSE IF SessionFindOne(sessions, r.code) /= NoSession
             THEN /\ sessions' = SessionUpdate(sessions, r.code, r.deviceId)
                  /\ lastUpsert' = [lastUpsert EXCEPT ![r.code] = now]
                  /\ req' = [req EXCEPT ![p] = Answer(r, ValidTrue)]
             ELSE /\ req' = [req EXCEPT ![p] = [r EXCEPT !.pc = "insert"]]
                  /\ UNCHANGED <<sessions, lastUpsert>>
    /\ UNCHANGED <<codeStore, now, seedPc, codes, seedStart, boot, loggedOut>>

\* The insert of an upsert that matched nothing. Another upsert may have
\* inserted the code meanwhile: the unique index then refuses this one, and
\* the store either reports the duplicate key (the handler's catch answers
\* 500) or runs the operation again, now as an update.
VerifyInsert(p) ==
    /\ Listening
    /\ req[p].kind = "verify" /\ req[p].pc = "insert"
    /\ LET r == req[p]
       IN  IF ~DuplicateKey(sessions, r.code)
           THEN /\ sessions' = SessionInsert(sessions, r.code, r.deviceId, now)
                /\ lastUpsert' = [lastUpsert EXCEPT ![r.code] = now]
                /\ req' = [req EXCEPT ![p] = Answer(r, ValidTrue)]
           ELSE \E retried \in BOOLEAN :
                  IF retried
                  THEN /\ sessions' = SessionUpdate(sessions, r.code, r.deviceId)
                       /\ lastUpsert' = [lastUpsert EXCEPT ![r.code] = now]
                       /\ req' = [req EXCEPT ![p] = Answer(r, ValidTrue)]
                  ELSE /\ req' = [req EXCEPT ![p] = Answer(r, ServerError)]
                       /\ UNCHANGED <<sessions, lastUpsert>>
    /\ UNCHANGED <<codeStore, now, seedPc, codes, seedStart, boot, loggedOut>>

\* ------------------------------------------------------------------------
\* POST /api/logout, server.js:97-108

\* a validation that lets every body through
LogoutAcceptsAll(c) == FALSE

\* !code, server.js:99
LogoutInvalid(c) == Falsy(c)

ReceiveLogout(p, c) ==
    /\ Listening
    /\ ~InFlight(p)
    /\ LET r == [Idle EXCEPT !.kind = "logout", !.code = c]
       IN  IF LogoutInvalid(c)
           THEN /\ req' = [req EXCEPT ![p] = Answer(r, CodeRequired)]
                /\ UNCHANGED loggedOut
           ELSE /\ req' = [Overlap(p, c) EXCEPT ![p] =
                            [r EXCEPT !.pc = "delete",
                                      !.alone = ~OthersInFlight(p, c),
                                      !.fresh = (SessionFindOne(sessions, c) = NoSession)]]
                /\ loggedOut' = [loggedOut EXCEPT ![c] = "none"]
    /\ UNCHANGED <<codeStore, sessions, now, seedPc, codes, seedStart, boot, lastUpsert>>

\* await Session.deleteOne({ code }), then line 103
LogoutDelete(p) ==
    /\ Listening
    /\ req[p].kind = "logout" /\ req[p].pc = "delete"
    /\ \E ok \in BOOLEAN :
         LET r == [req[p] EXCEPT !.ops = Append(@, "Session.deleteOne")]
             removed == SessionFindOne(sessions, r.code)
         IN  IF ~ok \/ ~StoreUp
             THEN /\ req' = [req EXCEPT ![p] = Answer(r, ServerError)]
                  /\ UNCHANGED <<sessions, lastUpsert, loggedOut>>
             ELSE /\ sessions' = SessionDeleteOne(sessions, r.code)
                  /\ req' = [req EXCEPT ![p] = Answer(r, LogoutSuccess)]
                  /\ lastUpsert' = [lastUpsert EXCEPT ![r.code] =
                        IF \E t \in sessions' : t.code = r.code THEN @ ELSE -1]
                  /\ loggedOut' = [loggedOut EXCEPT ![r.code] =
                        IF OthersInFlight(p, r.code) THEN "none"
                        ELSE IF removed = NoSession THEN "none"
                        ELSE removed.deviceId]
    /\ UNCHANGED <<codeStore, now, seedPc, codes, seedStart, boot>>

\* ------------------------------------------------------------------------
\* POST /api/chat, server.js:111-136

\* a validation that lets every body through
ChatAcceptsAll(m) == FALSE

\* !messages, server.js:113: an array, even an empty one, is truthy
ChatInvalid(m) == m = MissingMessages

\* a body that carries the last message only
ChatPayloadLastMessage(m) ==
    [model |-> "gpt-3.5-turbo",
     messages |-> IF Len(m) <= 1 THEN m ELSE <<m[Len(m)]>>,
     temperature |-> "0.8", max_tokens |-> MaxTokens]

\* the body of the upstream request, server.js:118-123
ChatPayload(m) ==
    [model |-> "gpt-3.5-turbo", messages |-> m, temperature |-> "0.8",
     max_tokens |-> MaxTokens]

ReceiveChat(p, m) ==
    /\ Listening
    /\ ~InFlight(p)
    /\ LET r == [Idle EXCEPT !.kind = "chat", !.messages = m]
       IN  req' = [req EXCEPT ![p] =
              IF ChatInvalid(m) THEN Answer(r, MessagesRequired)
              ELSE [r EXCEPT !.pc = "upstream"]]
    /\ UNCHANGED <<codeStore, sessions, now, seedPc, codes, seedStart, boot, lastUpsert, loggedOut>>

\* await axios.post(...), then line 131, or the catch of lines 132-135
ChatUpstream(p) ==
    /\ Listening
    /\ req[p].kind = "chat" /\ req[p].pc = "upstream"
    /\ LET r == [req[p] EXCEPT !.ops = Append(@, "axios.post"),
                               !.sent = <<ChatPayload(req[p].messages)>>]
       IN  \E ok \in BOOLEAN, data \in UpstreamData, detail \in UpstreamErrors :
             req' = [req EXCEPT ![p] =
                IF ok THEN Answer(r, Json(200, data))
                ELSE Answer([r EXCEPT !.logged = detail], ChatFailed)]
    /\ UNCHANGED <<codeStore, sessions, now, seedPc, codes, seedStart, boot, lastUpsert, loggedOut>>

\* ------------------------------------------------------------------------
\* The store's clock and its TTL monitor

\* d days pass
Tick(d) ==
    /\ now + d <= MaxTime
    /\ now' = now + d
    /\ UNCHANGED <<codeStore, sessions, req, seedPc, codes, seedStart, boot, lastUpsert, loggedOut>>

\* the TTL monitor removes a document whose createdAt is 7 days old
Expire(s) ==
    /\ s \in sessions
    /\ Expired(s, now)
    /\ sessions' = sessions \ {s}
    /\ lastUpsert' = [lastUpsert EXCEPT ![s.code] =
          IF \E t \in sessions' : t.code = s.code THEN @ ELSE -1]
    /\ UNCHANGED <<codeStore, now, req, seedPc, codes, seedStart, boot, loggedOut>>

\* ------------------------------------------------------------------------
\* seedCodes(), server.js:143-158, and generateRandomCode(), server.js:51-60

\* a generator that indexes characters with the byte itself, clamped
generateClamped(bytes) ==
    [i \in 1 .. CodeLength |->
        Characters[IF bytes[i] < Len(Characters) THEN bytes[i] + 1 ELSE Len(Characters)]]

\* code += characters.charAt(bytes[i] % characters.length)
generateRandomCode(bytes) ==
    [i \in 1 .. CodeLength |-> Characters[(bytes[i] % Len(Characters)) + 1]]

\* Code.insertMany(docs), ordered: the documents are inserted in order and
\* the first one the unique index on code (server.js:22) refuses ends it
RECURSIVE InsertMany(_, _)
InsertMany(store, docs) ==
    IF docs = << >> THEN store
    ELSE IF \E r \in store : r.code = Head(docs).code THEN store
    ELSE InsertMany(store \cup {Head(docs)}, Tail(docs))

\* the insertMany promise rejects: some document was refused
RECURSIVE InsertManyRejects(_, _)
InsertManyRejects(store, docs) ==
    IF docs = << >> THEN FALSE
    ELSE IF \E r \in store : r.code = Head(docs).code THEN TRUE
    ELSE InsertManyRejects(store \cup {Head(docs)}, Tail(docs))

\* const codeCount = await Code.countDocuments(); if (codeCount === 0)
SeedCountDocuments ==
    /\ Listening
    /\ seedPc = "count"
    /\ seedPc' = IF ~StoreUp THEN "rejected"
                 ELSE IF Cardinality(codeStore) = 0 THEN "deleteMany" ELSE "skipped"
    /\ UNCHANGED <<codeStore, sessions, now, req, codes, seedStart, boot, lastUpsert, loggedOut>>

\* await Code.deleteMany({})
SeedDeleteMany ==
    /\ seedPc = "deleteMany"
    /\ codeStore' = {}
    /\ seedPc' = "generate"
    /\ UNCHANGED <<sessions, now, req, codes, seedStart, boot, lastUpsert, loggedOut>>

\* one turn of the loop of lines 148-152, on the bytes randomBytes returned
SeedGenerate(bytes) ==
    /\ seedPc = "generate"
    /\ Len(codes) < SeedN
    /\ LET code == generateRandomCode(bytes)
       IN  IF CipherOk
           THEN /\ codes' = Append(codes, [code |-> code, encryptedCode |-> encrypt(code)])
                /\ UNCHANGED seedPc
           ELSE /\ seedPc' = "rejected"
                /\ UNCHANGED codes
    /\ UNCHANGED <<codeStore, sessions, now, req, seedStart, boot, lastUpsert, loggedOut>>

\* await Code.insertMany(codes); a rejection is handled nowhere
SeedInsertMany ==
    /\ seedPc = "generate"
    /\ Len(codes) = SeedN
    /\ codeStore' = InsertMany(codeStore, codes)
    /\ seedPc' = IF InsertManyRejects(codeStore, codes) THEN "rejected" ELSE "seeded"
    /\ UNCHANGED <<sessions, now, req, codes, seedStart, boot, lastUpsert, loggedOut>>

\* ------------------------------------------------------------------------
\* The start of the process, server.js:9-41, 139-140, 160

\* what the environment may hold for ENCRYPTION_KEY and for ENCRYPTION_IV:
\* nothing, a hex string of another length than the cipher needs, a good one
KeySettings == {"absent", "short", "ok"}

\* The module is evaluated. Buffer.from(undefined, 'hex') throws and ends
\* the process; Buffer.from of any string returns a buffer, of whatever
\* length. A failed mongoose.connect is logged by the catch of line 18.
\* Nothing else stands between the first line and app.listen.
Load ==
    /\ boot.pc = "load"
    /\ boot' = [boot EXCEPT !.pc =
          IF boot.key = "absent" \/ boot.iv = "absent" THEN "aborted" ELSE "listening"]
    /\ UNCHANGED <<codeStore, sessions, now, req, seedPc, codes, seedStart, lastUpsert, loggedOut>>

\* The promise of seedCodes() rejected and nothing handles it: depending on
\* the Node version the process is ended or goes on.
UnhandledRejection ==
    /\ Listening
    /\ seedPc = "rejected"
    /\ boot' = [boot EXCEPT !.pc = "aborted"]
    /\ UNCHANGED <<codeStore, sessions, now, req, seedPc, codes, seedStart, lastUpsert, loggedOut>>

\* ------------------------------------------------------------------------
\* Specifications

\* all codes generateRandomCode can return
AllCodes == {generateRandomCode(b) : b \in [1 .. CodeLength -> Bytes]}

\* a Code collection as a seeding without collision leaves it
SeededCodes ==
    CHOOSE S \in SUBSET AllCodes :
        Cardinality(S) = SeedN /\ Code1 \in S /\ Code2 \in S /\ CodeU \notin S

InitRest ==
    /\ sessions = {}
    /\ now = 0
    /\ req = [p \in Procs |-> Idle]
    /\ codes = << >>
    /\ lastUpsert = [c \in KeyCodes |-> -1]
    /\ loggedOut = [c \in KeyCodes |-> "none"]

\* The service with its codes seeded, serving requests.
Init ==
    /\ codeStore = {AccessCode(c) : c \in SeededCodes}
    /\ seedPc = "seeded"
    /\ seedStart = {}
    /\ boot = Booted
    /\ InitRest

Next ==
    \/ \E p \in Procs, b \in VerifyBodies : ReceiveVerify(p, b.code, b.deviceId)
    \/ \E p \in Procs : VerifyFindCode(p)
    \/ \E p \in Procs : VerifyFindSession(p)
    \/ \E p \in Procs : VerifyUpsert(p)
    \/ \E p \in Procs : VerifyInsert(p)
    \/ \E p \in Procs, c \in ReqCodes : ReceiveLogout(p, c)
    \/ \E p \in Procs : LogoutDelete(p)
    \/ \E p \in Procs, m \in ReqMessages : ReceiveChat(p, m)
    \/ \E p \in Procs : ChatUpstream(p)
    \/ Tick(TTL)
    \/ \E s \in sessions : Expire(s)

\* Two request tasks; the clock advances a whole TTL at a time.
Spec == Init /\ [][Next]_vars

\* One request task; the clock advances a day at a time.
DayNext ==
    \/ \E b \in VerifyBodies : ReceiveVerify("t1", b.code, b.deviceId)
    \/ VerifyFindCode("t1")
    \/ VerifyFindSession("t1")
    \/ VerifyUpsert("t1")
    \/ VerifyInsert("t1")
    \/ \E c \in ReqCodes : ReceiveLogout("t1", c)
    \/ LogoutDelete("t1")
    \/ Tick(1)
    \/ \E s \in sessions : Expire(s)

DaySpec == Init /\ [][DayNext]_vars

\* The executions in which the verify requests of a code are handled one at
\* a time: a verify for c is received only when no other verify for c is in
\* flight. Logouts, the clock and the TTL monitor run as they like.
VerifyInFlight(c) ==
    \E q \in Procs : InFlight(q) /\ req[q].kind = "verify" /\ req[q].code = c

SerialNext ==
    \/ \E p \in Procs, b \in VerifyBodies :
          ~VerifyInFlight(b.code) /\ ReceiveVerify(p, b.code, b.deviceId)
    \/ \E p \in Procs : VerifyFindCode(p)
    \/ \E p \in Procs : VerifyFindSession(p)
    \/ \E p \in Procs : VerifyUpsert(p)
    \/ \E p \in Procs : VerifyInsert(p)
    \/ \E p \in Procs, c \in ReqCodes : ReceiveLogout(p, c)
    \/ \E p \in Procs : LogoutDelete(p)
    \/ Tick(TTL)
    \/ \E s \in sessions : Expire(s)

SerialSpec == Init /\ [][SerialNext]_vars

\* The request handlers when every store and upstream call they await
\* completes or fails: a handler that can go on does go on.
HandlersGoOn ==
    \A p \in Procs :
        /\ WF_vars(VerifyFindCode(p)) /\ WF_vars(VerifyFindSession(p))
        /\ WF_vars(VerifyUpsert(p)) /\ WF_vars(VerifyInsert(p))
        /\ WF_vars(LogoutDelete(p)) /\ WF_vars(ChatUpstream(p))

\* the handlers of the two tasks, the clock standing still
LiveNext ==
    \/ \E p \in Procs, b \in VerifyBodies : ReceiveVerify(p, b.code, b.deviceId)
    \/ \E p \in Procs : VerifyFindCode(p)
    \/ \E p \in Procs : VerifyFindSession(p)
    \/ \E p \in Procs : VerifyUpsert(p)
    \/ \E p \in Procs : VerifyInsert(p)
    \/ \E p \in Procs, c \in ReqCodes : ReceiveLogout(p, c)
    \/ \E p \in Procs : LogoutDelete(p)
    \/ \E p \in Procs, m \in ReqMessages : ReceiveChat(p, m)
    \/ \E p \in Procs : ChatUpstream(p)

LiveSpec == Init /\ [][LiveNext]_vars /\ HandlersGoOn

\* Two seeded codes in use at once: verify and logout requests for either
\* of them on the two tasks, with the clock and the TTL monitor.
IsoBodies == {[code |-> Code1, deviceId |-> "devB"], [code |-> Code2, deviceId |-> "devA"]}

IsoNext ==
    \/ \E p \in Procs, b \in IsoBodies : ReceiveVerify(p, b.code, b.deviceId)
    \/ \E p \in Procs : VerifyFindCode(p)
    \/ \E p \in Procs : VerifyFindSession(p)
    \/ \E p \in Procs : VerifyUpsert(p)
    \/ \E p \in Procs : VerifyInsert(p)
    \/ \E p \in Procs, c \in {Code1, Code2} : ReceiveLogout(p, c)
    \/ \E p \in Procs : LogoutDelete(p)
    \/ Tick(TTL)
    \/ \E s \in sessions : Expire(s)

IsoSpec == Init /\ [][IsoNext]_vars

\* seedCodes() alone, called on an empty or on a seeded Code collection.
SeedInit ==
    /\ codeStore \in {{}, {AccessCode(Code1)}, {AccessCode(c) : c \in SeededCodes}}
    /\ seedPc = "count"
    /\ seedStart = codeStore
    /\ boot = Booted
    /\ InitRest

SeedNext ==
    \/ SeedCountDocuments
    \/ SeedDeleteMany
    \/ \E bytes \in [1 .. CodeLength -> Bytes] : SeedGenerate(bytes)
    \/ SeedInsertMany

SeedSpec == SeedInit /\ [][SeedNext]_vars

\* The process from its first line, under every configuration, with a Code
\* collection seeded by an earlier run; one request task.
BootInit ==
    /\ boot \in [key : KeySettings, iv : KeySettings, store : {"up", "down"}, pc : {"load"}]
    /\ codeStore = {AccessCode(c) : c \in SeededCodes}
    /\ seedPc = "count"
    /\ seedStart = codeStore
    /\ InitRest

BootNext ==
    \/ Load
    \/ SeedCountDocuments
    \/ UnhandledRejection
    \/ \E b \in VerifyBodies : ReceiveVerify("t1", b.code, b.deviceId)
    \/ VerifyFindCode("t1")
    \/ VerifyFindSession("t1")
    \/ VerifyUpsert("t1")
    \/ VerifyInsert("t1")
    \/ \E c \in ReqCodes : ReceiveLogout("t1", c)
    \/ LogoutDelete("t1")
    \/ \E m \in ReqMessages : ReceiveChat("t1", m)
    \/ ChatUpstream("t1")

BootSpec == BootInit /\ [][BootNext]_vars

\* ------------------------------------------------------------------------
\* Vocabulary of the properties

\* the plaintext code is one of the Code collection
CodeSeeded(c) == \E r \in codeStore : r.code = c
\* the Sessions of a code
SessionsOf(S, c) == {s \in S : s.code = c}
\* the handler of task p answers in this step
AnswersNow(p) == req'[p] /= req[p] /\ req'[p].pc = "done"
\* the request issued a write to the Session collection
Wrote(r) ==
    \E i \in 1 .. Len(r.ops) : r.ops[i] \in {"Session.findOneAndUpdate", "Session.deleteOne"}

\* ------------------------------------------------------------------------
\* C1  Device conflict: when the Session.findOne of a verify(c, B) returns a
\* Session of c bound to another device A, the request answers 403 with the
\* device-conflict error, not valid:true, and writes nothing: the step
\* leaves the Session collection as it was (deviceId A, same createdAt) and
\* the request has issued no write.
C1_DeviceConflict ==
    [][\A p \in Procs :
         ( /\ req[p].kind = "verify"
           /\ req[p].pc = "findSession"
           /\ req'[p].pc /= "findSession"
           /\ req'[p].res /= ServerError
           /\ \E s \in sessions : s.code = req[p].code /\ s.deviceId /= req[p].deviceId )
         => /\ req'[p].pc = "done"
            /\ req'[p].res = DeviceConflict
            /\ sessions' = sessions
            /\ ~Wrote(req'[p])]_vars

\* a verify from devB was refused while devA holds the code, with a Session
\* created on an earlier day
C1_Witness ==
    \E p \in Procs :
        /\ req[p].kind = "verify" /\ req[p].res = DeviceConflict
        /\ req[p].deviceId = "devB"
        /\ \E s \in sessions :
              s.code = req[p].code /\ s.deviceId = "devA" /\ s.createdAt < now

\* ------------------------------------------------------------------------
\* C2 as stated: a verify(c, d) for a seeded c and a non-empty d, received
\* when c has no Session and running with no other request for c in flight,
\* answers valid:true and leaves exactly one Session of c, bound to d.
C2_AsStated ==
    [][\A p \in Procs :
         ( /\ AnswersNow(p)
           /\ req[p].kind = "verify" /\ InFlight(p)
           /\ CodeSeeded(req[p].code) /\ ~FalsyDevice(req[p].deviceId)
           /\ req[p].fresh /\ req[p].alone )
         => /\ req'[p].res = ValidTrue
            /\ Cardinality(SessionsOf(sessions', req[p].code)) = 1
            /\ \A s \in SessionsOf(sessions', req[p].code) : s.deviceId = req[p].deviceId]_vars

\* C2  First login, amended: the same, provided none of the request's store
\* operations fails (a failure is answered by the 500 of the catch block).
C2_FirstLogin ==
    [][\A p \in Procs :
         ( /\ AnswersNow(p)
           /\ req[p].kind = "verify" /\ InFlight(p)
           /\ CodeSeeded(req[p].code) /\ ~FalsyDevice(req[p].deviceId)
           /\ req[p].fresh /\ req[p].alone
           /\ req'[p].res /= ServerError )
         => /\ req'[p].res = ValidTrue
            /\ Cardinality(SessionsOf(sessions', req[p].code)) = 1
            /\ \A s \in SessionsOf(sessions', req[p].code) : s.deviceId = req[p].deviceId]_vars

\* a first login was answered valid:true and its Session is in the store
C2_Witness ==
    \E p \in Procs :
        /\ req[p].kind = "verify" /\ req[p].pc = "done"
        /\ req[p].fresh /\ req[p].alone /\ req[p].res = ValidTrue
        /\ SessionsOf(sessions, req[p].code) =
              {[code |-> req[p].code, deviceId |-> req[p].deviceId, createdAt |-> now]}

\* ------------------------------------------------------------------------
\* C3 as stated: a verify for a code that is not in the Code collection (its
\* ciphertext, the cipher being one-to-one, matches no AccessCode) answers valid:false whatever the deviceId, and the Session collection is
\* unchanged.
C3_AsStated ==
    [][\A p \in Procs :
         ( /\ AnswersNow(p)
           /\ req'[p].kind = "verify"
           /\ ~Falsy(req'[p].code)
           /\ ~CodeSeeded(req'[p].code) )
         => /\ req'[p].res = ValidFalse
            /\ sessions' = sessions]_vars

\* C3  Unknown code, amended: a verify for a non-empty code that is not in
\* the Code collection never answers valid:true or a conflict and no step
\* of it changes the Session collection; its only store operation is the
\* Code lookup. With a non-empty deviceId it answers valid:false unless that
\* lookup fails (500); with an empty or missing deviceId it answers 400.
C3_UnknownCode ==
    [][\A p \in Procs :
         ( /\ req'[p] /= req[p]
           /\ req'[p].kind = "verify"
           /\ ~Falsy(req'[p].code)
           /\ ~CodeSeeded(req'[p].code) )
         => /\ sessions' = sessions
            /\ req'[p].res \notin {ValidTrue, DeviceConflict}
            /\ \A i \in 1 .. Len(req'[p].ops) : req'[p].ops[i] = "Code.findOne"
            /\ req'[p].pc = "done" =>
                 IF FalsyDevice(req'[p].deviceId)
                 THEN req'[p].res = CodeAndDeviceRequired
                 ELSE req'[p].res \in {ValidFalse, ServerError}]_vars

\* a verify for an unseeded code was answered valid:false while another
\* code has a Session
C3_Witness ==
    \E p \in Procs :
        /\ req[p].kind = "verify" /\ req[p].code = CodeU
        /\ req[p].res = ValidFalse
        /\ sessions /= {}

\* ------------------------------------------------------------------------
\* C4 as stated: every upsert, insert or update, leaves the Session of its
\* code bound to the request's device with createdAt the time of the upsert;
\* so does the re-login of the device that already holds the code.
C4_AsStated ==
    [][\A p \in Procs :
         ( /\ AnswersNow(p)
           /\ req[p].kind = "verify"
           /\ req'[p].res = ValidTrue )
         => \A s \in SessionsOf(sessions', req[p].code) :
               s.deviceId = req[p].deviceId /\ s.createdAt = now]_vars

\* ------------------------------------------------------------------------
\* C5 as stated: a verify(c, B) received right after a completed logout(c)
\* that removed the Session of a device A, with no other request for c
\* meanwhile, answers valid:true and leaves the Session of c bound to B.
C5_AsStated ==
    [][\A p \in Procs :
         ( /\ AnswersNow(p)
           /\ req[p].kind = "verify" /\ InFlight(p)
           /\ CodeSeeded(req[p].code)
           /\ req[p].afterLogout /= "none" /\ req[p].alone )
         => /\ req'[p].res = ValidTrue
            /\ \E s \in sessions' : s.code = req[p].code
            /\ \A s \in SessionsOf(sessions', req[p].code) : s.deviceId = req[p].deviceId]_vars

\* C5  Logout clears the conflict, amended: the same, provided none of the
\* store operations of the verify fails (a failure is answered 500).
C5_LogoutClearsConflict ==
    [][\A p \in Procs :
         ( /\ AnswersNow(p)
           /\ req[p].kind = "verify" /\ InFlight(p)
           /\ CodeSeeded(req[p].code)
           /\ req[p].afterLogout /= "none" /\ req[p].alone
           /\ req'[p].res /= ServerError )
         => /\ req'[p].res = ValidTrue
            /\ \E s \in sessions' : s.code = req[p].code
            /\ \A s \in SessionsOf(sessions', req[p].code) : s.deviceId = req[p].deviceId]_vars

\* devB verified right after the logout that removed devA's Session, and
\* holds the code
C5_Witness ==
    \E p \in Procs :
        /\ req[p].kind = "verify" /\ req[p].pc = "done"
        /\ req[p].afterLogout = "devA" /\ req[p].deviceId = "devB"
        /\ req[p].alone /\ req[p].res = ValidTrue
        /\ \E s \in sessions : s.code = req[p].code /\ s.deviceId = "devB"

\* ------------------------------------------------------------------------
\* C6  At most one Session per code, in every reachable state, whatever the
\* interleaving of verify, logout and expiry steps.
C6_OneSessionPerCode ==
    \A s, t \in sessions : s.code = t.code => s = t

\* two upserts found no Session of the code; one has inserted, the other is
\* about to
C6_Witness ==
    \E p, q \in Procs :
        /\ p /= q
        /\ req[p].pc = "insert" /\ req[q].res = ValidTrue
        /\ req[q].code = req[p].code /\ req[q].deviceId /= req[p].deviceId
        /\ \E s \in sessions : s.code = req[q].code /\ s.deviceId = req[q].deviceId

\* ------------------------------------------------------------------------
\* C7 as stated (its safety half): expiry never removes a Session sooner
\* than 7 days after the most recent upsert of its code.
C7_AsStated ==
    [][\A s \in sessions :
         (s \notin sessions' /\ req' = req)
         => now >= lastUpsert[s.code] + TTL]_vars

\* ------------------------------------------------------------------------
\* C8  Logout: a logout(c) whose delete does not fail answers success:true,
\* whether or not c had a Session and whoever held it; after the delete c
\* has no Session, the Sessions of other codes are as before, and a second
\* delete of c would change nothing.
C8_Logout ==
    [][\A p \in Procs :
         ( /\ AnswersNow(p)
           /\ req[p].kind = "logout" /\ InFlight(p)
           /\ req'[p].res /= ServerError )
         => /\ req'[p].res = LogoutSuccess
            /\ SessionsOf(sessions', req[p].code) = {}
            /\ sessions' = sessions \ SessionsOf(sessions, req[p].code)
            /\ SessionDeleteOne(sessions', req[p].code) = sessions']_vars

\* a logout was answered success:true twice in a row for the same code: the
\* first removed devA's Session, the second found none
C8_Witness ==
    \E p, q \in Procs :
        /\ p /= q
        /\ req[p].kind = "logout" /\ req[p].res = LogoutSuccess /\ ~req[p].fresh
        /\ req[q].kind = "logout" /\ req[q].res = LogoutSuccess /\ req[q].fresh
        /\ req[q].code = req[p].code
        /\ sessions = {}

\* ------------------------------------------------------------------------
\* C9  Validation first: a verify with a missing or empty code or deviceId,
\* a logout with a missing or empty code and a chat with missing messages
\* answer 400 having issued no store and no upstream operation; the step
\* changes neither collection.
BodyInvalid(r) ==
    \/ r.kind = "verify" /\ (Falsy(r.code) \/ FalsyDevice(r.deviceId))
    \/ r.kind = "logout" /\ Falsy(r.code)
    \/ r.kind = "chat" /\ r.messages = MissingMessages

C9_ValidationFirst ==
    [][\A p \in Procs :
         (AnswersNow(p) /\ BodyInvalid(req'[p]))
         => /\ req'[p].res.status = 400
            /\ req'[p].ops = << >>
            /\ req'[p].sent = << >>
            /\ sessions' = sessions
            /\ codeStore' = codeStore]_vars

\* a verify without deviceId and a chat without messages were answered 400
\* while a Session is stored
C9_Witness ==
    \E p, q \in Procs :
        /\ req[p].kind = "verify" /\ req[p].deviceId = MissingDevice
        /\ req[p].res = CodeAndDeviceRequired
        /\ req[q].kind = "chat" /\ req[q].res = MessagesRequired
        /\ sessions /= {}

\* ------------------------------------------------------------------------
\* C10 as stated: seedCodes() called on an empty Code collection leaves
\* exactly SeedN documents with pairwise distinct code and pairwise distinct
\* encryptedCode; called on a collection that holds a document it leaves the
\* collection as it was.
C10_AsStated ==
    /\ (seedStart = {} /\ seedPc \in {"seeded", "rejected"})
         => /\ Cardinality(codeStore) = SeedN
            /\ \A r, t \in codeStore :
                  (r.code = t.code \/ r.encryptedCode = t.encryptedCode) => r = t
    /\ seedStart /= {} => codeStore = seedStart

\* ------------------------------------------------------------------------
\* C11 as stated: a process whose cipher key or IV does not have the length
\* the cipher needs, or whose store is unreachable when it starts, never
\* listens and never answers a request.
C11_AsStated ==
    (~CipherOk \/ ~StoreUp) => (~Listening /\ \A p \in Procs : req[p].pc /= "done")

C13_SoleDevice ==
    [][ /\ \A s \in sessions : \A t \in sessions' :
              s.code = t.code => s.deviceId = t.deviceId
        /\ \A p \in Procs :
              ( AnswersNow(p) /\ req'[p].kind = "verify" /\ req'[p].res = ValidTrue )
              => \E t \in sessions' :
                    t.code = req'[p].code /\ t.deviceId = req'[p].deviceId ]_vars

\* devA held the code, a logout removed its Session, and the verify of devB
\* received after that logout is answered valid:true and holds the code
C13_Witness ==
    \E p \in Procs : \E q \in Procs \ {p} :
        /\ req[p].kind = "verify" /\ req[p].pc = "done" /\ req[p].res = ValidTrue
        /\ req[p].deviceId = "devB" /\ req[p].afterLogout = "devA"
        /\ req[q].kind = "logout" /\ req[q].code = req[p].code
        /\ req[q].res = LogoutSuccess
        /\ \E s \in sessions : s.code = req[p].code /\ s.deviceId = "devB"

\* ------------------------------------------------------------------------
\* C14  Failure before the upsert changes nothing: a verify step taken at
\* the Code lookup or at the Session lookup leaves the Session collection as
\* it is, the request has then issued no write, and when the step ends the
\* request without a verdict (valid:false, device conflict) its answer is
\* the generic 500. findOneAndUpdate is the only write a verify issues and
\* the last store operation in its log; the Session collection changes in a
\* step of a verify only at that operation.
Steps(p) == req'[p].pc /= req[p].pc \/ req'[p].ops /= req[p].ops

C14_FailureBeforeUpsert ==
    [][\A p \in Procs :
         ( req[p].kind = "verify" /\ InFlight(p) /\ Steps(p) )
         => /\ req[p].pc \in {"findCode", "findSession"}
                 => /\ sessions' = sessions
                    /\ ~Wrote(req'[p])
                    /\ ( req'[p].pc = "done" /\ req'[p].res \notin {ValidFalse, DeviceConflict} )
                          => req'[p].res = ServerError
            /\ \A i \in 1 .. Len(req'[p].ops) :
                 /\ req'[p].ops[i] /= "Session.deleteOne"
                 /\ req'[p].ops[i] = "Session.findOneAndUpdate" => i = Len(req'[p].ops)
            /\ sessions' /= sessions
                 => /\ req[p].pc \in {"upsert", "insert"}
                    /\ req'[p].ops[Len(req'[p].ops)] = "Session.findOneAndUpdate" ]_vars

\* the Session lookup of a verify for the seeded code failed: the request
\* is answered 500 after its two lookups, and the code's Session is there
C14_Witness ==
    \E p \in Procs :
        /\ req[p].kind = "verify" /\ req[p].code = Code1 /\ req[p].pc = "done"
        /\ req[p].res = ServerError
        /\ req[p].ops = <<"Code.findOne", "Session.findOne">>
        /\ \E s \in sessions : s.code = Code1

\* ------------------------------------------------------------------------
\* C15  Every Session refers to a seeded code: in every reachable state the
\* code of each Session is the code of an AccessCode of the Code collection.
C15_SessionsReferToCodes ==
    \A s \in sessions : \E r \in codeStore : r.code = s.code

\* a Session exists, and a verify for the code that was never seeded, with
\* a device given, has been answered without one being made for it
C15_Witness ==
    /\ sessions /= {}
    /\ \E p \in Procs :
          /\ req[p].kind = "verify" /\ req[p].pc = "done"
          /\ req[p].code = CodeU /\ req[p].deviceId \in Devices
          /\ req[p].res = ValidFalse

\* ------------------------------------------------------------------------
\* C16  Chat proxy relays or hides: the step that ends a chat request with
\* messages present has posted one body upstream, with the messages of the
\* request as they came, the fixed model, temperature and max_tokens; when
\* the call succeeded the answer is 200 with a body the upstream returned,
\* when it failed the answer is the one generic 500, whatever detail was
\* logged. No step of a chat request touches the Code or Session collection
\* and its only outside call is the post.
C16_ChatRelaysOrHides ==
    [][\A p \in Procs :
         ( req'[p].kind = "chat" /\ req'[p] /= req[p] )
         => /\ sessions' = sessions /\ codeStore' = codeStore
            /\ \A i \in 1 .. Len(req'[p].ops) : req'[p].ops[i] = "axios.post"
            /\ ( req[p].kind = "chat" /\ req[p].pc = "upstream" )
                 => /\ req'[p].pc = "done"
                    /\ req'[p].ops = <<"axios.post">>
                    /\ req'[p].sent =
                          << [model |-> "gpt-3.5-turbo", messages |-> req[p].messages,
                              temperature |-> "0.8", max_tokens |-> MaxTokens] >>
                    /\ req'[p].logged = ""
                          => req'[p].res.status = 200 /\ req'[p].res.body \in UpstreamData
                    /\ req'[p].logged /= ""
                          => req'[p].res = Json(500, [error |-> "Failed to generate response"]) ]_vars

\* the same two messages were posted twice: once the upstream answered and
\* its body was relayed, once it timed out and the generic 500 went out
C16_Witness ==
    \E p \in Procs : \E q \in Procs \ {p} :
        /\ req[p].kind = "chat" /\ req[p].pc = "done"
        /\ req[p].sent /= << >> /\ req[p].messages = <<Msg1, Msg2>>
        /\ req[p].logged = "timeout" /\ req[p].res = ChatFailed
        /\ req[q].kind = "chat" /\ req[q].pc = "done"
        /\ req[q].messages = <<Msg1, Msg2>>
        /\ req[q].res = Json(200, [choices |-> "completion1"])

\* ------------------------------------------------------------------------
\* C17  Exactly one response, no retry: a request in flight is answered at
\* most once, by the step that ends it; no request issues the same store or
\* upstream operation twice, and the operation whose failure is answered by
\* a 500 is the last one the request issued; and, the calls completing or
\* failing, every request in flight is eventually answered.
C17_OneResponse ==
    /\ [][\A p \in Procs :
            /\ ( InFlight(p) /\ req'[p].res /= req[p].res )
                 => req[p].res = NoResponse /\ req'[p].pc = "done"
            /\ ( InFlight(p) /\ req'[p].pc = "done" ) => req'[p].res /= NoResponse
            /\ \A i, j \in 1 .. Len(req'[p].ops) :
                 req'[p].ops[i] = req'[p].ops[j] => i = j
            /\ ( InFlight(p) /\ req'[p].res.status = 500 )
                 => /\ req'[p].pc = "done"
                    /\ \/ req'[p].ops = Append(req[p].ops, req'[p].ops[Len(req'[p].ops)])
                       \/ req[p].pc = "insert" ]_vars
    /\ \A p \in Procs : InFlight(p) ~> (req[p].pc = "done")

\* a request was answered 500 after its second store operation failed, and
\* the other task's request was answered too
C17_Witness ==
    \E p \in Procs : \E q \in Procs \ {p} :
        /\ req[p].pc = "done" /\ req[p].res = ServerError /\ Len(req[p].ops) = 2
        /\ req[q].pc = "done" /\ req[q].kind = "chat" /\ req[q].res = ChatFailed

\* ------------------------------------------------------------------------
\* C18  Per-code isolation: a step of a verify or logout request for code c
\* leaves the Code collection as it is and the Sessions of every other code
\* as they are; the Sessions of a code change only in the upsert of a verify
\* for that code, in the deleteOne of a logout for that code, or when the
\* TTL monitor removes an expired Session of that code.
C18_PerCodeIsolation ==
    [][ /\ \A p \in Procs :
              ( req'[p] /= req[p] /\ req'[p].kind \in {"verify", "logout"} )
              => /\ codeStore' = codeStore
                 /\ \A c \in KeyCodes \ {req'[p].code} :
                       SessionsOf(sessions', c) = SessionsOf(sessions, c)
        /\ \A c \in KeyCodes :
              SessionsOf(sessions', c) /= SessionsOf(sessions, c)
              => \/ \E p \in Procs :
                       /\ req[p].code = c
                       /\ \/ req[p].kind = "verify" /\ req[p].pc \in {"upsert", "insert"}
                          \/ req[p].kind = "logout" /\ req[p].pc = "delete"
                       /\ req'[p].pc /= req[p].pc
                 \/ /\ req' = req
                    /\ \E s \in sessions :
                          s.code = c /\ now >= s.createdAt + TTL /\ sessions' = sessions \ {s} ]_vars

\* a logout of the first code has removed its Session while the second
\* code's Session, bound to devA, is still there
C18_Witness ==
    /\ \E p \in Procs :
          /\ req[p].kind = "logout" /\ req[p].code = Code1 /\ req[p].pc = "done"
          /\ req[p].res = LogoutSuccess /\ ~req[p].fresh
    /\ SessionsOf(sessions, Code1) = {}
    /\ \E s \in sessions : s.code = Code2 /\ s.deviceId = "devA"

\* ------------------------------------------------------------------------
\* C19  Logout does not cancel a verify in flight: a verify(c, A) is past
\* its read of c's Session (absent, or bound to A), a logout(c) on the other
\* task has answered success, and the verify's upsert, having matched
\* nothing, is about to insert. The insert is carried out all the same: the
\* verify answers valid:true and c has a Session again, bound to A, while
\* the logout is still the last request of the other task.
C19_UpsertAfterLogout ==
    [][\A p \in Procs : \A q \in Procs \ {p} :
         ( /\ AnswersNow(p)
           /\ req[p].kind = "verify" /\ req[p].pc = "insert"
           /\ req[q].kind = "logout" /\ req[q].pc = "done"
           /\ req[q].code = req[p].code /\ req[q].res = LogoutSuccess )
         => /\ req'[p].res = ValidTrue
            /\ SessionsOf(sessions', req[p].code) =
                  {[code |-> req[p].code, deviceId |-> req[p].deviceId, createdAt |-> now]}
            /\ req'[q] = req[q] ]_vars

\* devA's verify was received while devA held the code, and the logout too;
\* the logout has answered success, it is the last request of its task, and
\* yet the code has a Session of devA, the verify being answered valid:true
C19_Witness ==
    \E p \in Procs : \E q \in Procs \ {p} :
        /\ req[p].kind = "verify" /\ req[p].code = Code1 /\ req[p].deviceId = "devA"
        /\ req[p].pc = "done" /\ req[p].res = ValidTrue /\ ~req[p].fresh
        /\ req[q].kind = "logout" /\ req[q].code = Code1 /\ req[q].pc = "done"
        /\ req[q].res = LogoutSuccess /\ ~req[q].fresh
        /\ \E s \in sessions : s.code = Code1 /\ s.deviceId = "devA"

====
